---- MODULE Spec2Model ----
(***************************************************************************)
(* The call-chain explorer of oracleAI: the sidebar application (App.vue)  *)
(* with its persisted recent list, and the visualization component         *)
(* (Graph3D.vue) with its graph store, selection, highlight state and      *)
(* in-flight gateway requests.                                             *)
(*                                                                         *)
(* Opacities are kept as the literals the code assigns ("1", "0.8", ...),  *)
(* a field the code never assigned is "undefined".  Confidence values and  *)
(* the threshold are in tenths (0.5 is 5).                                 *)
(***************************************************************************)
EXTENDS Integers, Sequences, FiniteSets, TLC

\* ------------------------------------------------------------------ bounds
MaxAppRequests == 3      \* requests the sidebar issues in one run
MaxGraphRequests == 2    \* fetches the component issues in one run of Spec
MaxFetchRequests == 4    \* fetches the component issues in one run of SpecFetch
MaxPanelRequests == 3    \* fetches the component issues in one run of SpecPanel
MaxLinkRequests == 3     \* fetches the component issues in one run of SpecLinks
MaxClearRequests == 3    \* fetches the component issues in one run of SpecClear
MaxUploadRequests == 3   \* gateway calls the sidebar issues in one run of SpecUpload
MaxStored == 11          \* longest list found in local storage at startup

\* ------------------------------------------------------- program constants
RecentCap == 10          \* "only keep the 10 most recent"
DefaultDepth == 3
DefaultConfidence == 5

\* -------------------------------------------------------------- JS values
Null == "null"
Undefined == "undefined"
NoAlert == "none"

\* Names that local storage may hold at startup, in the order stored.
StoredNames ==
  << "SP_A", "SP_B", "P03", "P04", "P05", "P06", "P07",
     "P08", "P09", "P10", "P11", "P12", "P13" >>

\* ------------------------------------------------- gateway answers (data)
\* Raw graphs as the call-chain endpoint returns them: no transient fields.
RawNode(i, n) == [id |-> i, name |-> n]
RawLink(s, t, ty, c) == [source |-> s, target |-> t, type |-> ty, confidence |-> c]

EmptyGraph == [nodes |-> << >>, links |-> << >>]

\* Scenario A of the specification: SP_A calls SP_B and references T_ORDER.
GraphA ==
  [nodes |-> << RawNode(1, "SP_A"), RawNode(2, "SP_B"), RawNode(3, "T_ORDER") >>,
   links |-> << RawLink(1, 2, "CALLS", 9), RawLink(1, 3, "REFERENCES", 7) >>]

\* A recursive procedure without SP_A: SP_B calls itself and SP_C, which
\* references T_ORDER (two hops from SP_B).
GraphB ==
  [nodes |-> << RawNode(2, "SP_B"), RawNode(4, "SP_C"), RawNode(3, "T_ORDER") >>,
   links |-> << RawLink(2, 2, "CALLS", 4), RawLink(2, 4, "CALLS", 9),
                RawLink(4, 3, "DYN_REFERENCES", 3) >>]

Graphs == {GraphA, GraphB}

\* A link object that has no confidence property: reading it gives undefined.
NoConfidence == -1

\* A graph with links of every type the colour rule names and of a type it
\* does not name, with confidences 0, below, at and above the default
\* threshold, and with a link that carries no confidence.
GraphLinks ==
  [nodes |-> << RawNode(2, "SP_B"), RawNode(3, "T_ORDER"), RawNode(4, "SP_C") >>,
   links |-> << RawLink(2, 4, "CALLS", 9), RawLink(2, 3, "REFERENCES", 5),
                RawLink(4, 3, "DYN_REFERENCES", 7), RawLink(4, 3, "USES", 7),
                RawLink(2, 2, "USES", 0), RawLink(4, 2, "CALLS", 3),
                RawLink(2, 4, "CALLS", NoConfidence) >>]
NodeIds == 1..4

\* Results of the search endpoint: the names of `procedures`, in order.
SearchAnswers == { << >>, << "SP_B", "SP_A" >> }

Keywords == {"", "SP"}

\* ------------------------------------------------------------- responses
\* A gateway answer: the fetch is rejected, or it resolves with a status and
\* a body; the body is JSON of the expected shape, JSON of another shape
\* (an error document such as {"detail": ...}) or no JSON at all.
Response(st, b, g, p) == [status |-> st, body |-> b, graph |-> g, procs |-> p]

Rejected == Response("rejected", "none", EmptyGraph, << >>)

CallChainResponses ==
  { Response("ok", "graph", g, << >>) : g \in Graphs }
    \cup { Rejected,
           Response("error", "errorJson", EmptyGraph, << >>),
           Response("error", "notJson", EmptyGraph, << >>) }

\* Call-chain answers that carry the graph of many link kinds.
LinkResponses ==
  { Response("ok", "graph", GraphLinks, << >>), Response("ok", "graph", GraphA, << >>),
    Rejected }

\* The answers the sidebar's call-chain request is given.
AppCallChainResponses ==
  { Response("ok", "graph", GraphA, << >>), Response("ok", "graph", GraphB, << >>),
    Rejected, Response("error", "errorJson", EmptyGraph, << >>) }

SearchResponses ==
  { Response("ok", "procedures", EmptyGraph, p) : p \in SearchAnswers }
    \cup { Rejected, Response("error", "errorJson", EmptyGraph, << >>) }

\* The answers the sidebar's search request is given.
AppSearchResponses ==
  { Response("ok", "procedures", EmptyGraph, << >>),
    Response("ok", "procedures", EmptyGraph, << "SP_B", "SP_A" >>),
    Response("error", "errorJson", EmptyGraph, << >>) }

\* axios rejects on a network error and on every non-2xx status.
AxiosResolves(resp) == resp.status = "ok"

\* fetch rejects on a network error only; response.json() rejects on a body
\* that is not JSON.
FetchJsonResolves(resp) == resp.status # "rejected" /\ resp.body # "notJson"

\* --------------------------------------------------------- local storage
Entry(k, items) == [kind |-> k, items |-> items]
NoEntry == Entry("absent", << >>)
CorruptEntry == Entry("corrupt", << >>)

JSONstringify(list) == Entry("json", list)
JSONparses(entry) == entry.kind = "json"
JSONparse(entry) == entry.items

Proc(n) == [name |-> n]

\* Lists local storage may hold at startup: windows of StoredNames, and
\* lists that repeat one name.
StoredLists ==
  { [k \in 1..len |-> Proc(StoredNames[from + k - 1])] :
      from \in 1..2, len \in (0..3) \cup ((RecentCap - 1)..MaxStored) }
    \cup { [k \in 1..len |-> Proc("SP_A")] : len \in {2, MaxStored} }

StartEntries == {NoEntry, CorruptEntry} \cup { JSONstringify(l) : l \in StoredLists }

\* ------------------------------------------------ App.vue: the recent list
\* findIndex that never finds the name.
FindIndexNever(list, name) == -1

\* Array.prototype.findIndex on names: the 0-based index, or -1.
FindIndex(list, name) ==
  IF \E i \in 1..Len(list) : list[i].name = name
  THEN (CHOOSE i \in 1..Len(list) :
          /\ list[i].name = name
          /\ \A j \in 1..(i - 1) : list[j].name # name) - 1
  ELSE -1

\* Array.prototype.splice(start, 1): a negative start counts from the end,
\* a start past the end removes nothing.
Splice1(list, start) ==
  LET n == Len(list)
      from == IF start < 0
              THEN (IF n + start < 0 THEN 0 ELSE n + start)
              ELSE (IF start > n THEN n ELSE start)
  IN IF from < n
     THEN SubSeq(list, 1, from) \o SubSeq(list, from + 2, n)
     ELSE list

Unshift(list, x) == << x >> \o list

\* The cut to 10 left out.
KeepEverything(list) == list

\* "only keep the 10 most recent": slice(0, 10) on a longer list.
KeepRecent(list) ==
  IF Len(list) > RecentCap THEN SubSeq(list, 1, RecentCap) ELSE list

\* The in-memory list addToRecentProcedures leaves (it is also what is
\* written to local storage).  The second splice is unconditional.
AddToRecentProcedures(list, procedure) ==
  LET index == FindIndex(list, procedure.name)
      l1 == IF index # -1 THEN Splice1(list, index) ELSE list
      l2 == Splice1(l1, index)
      l3 == Unshift(l2, procedure)
  IN KeepRecent(l3)

\* loadRecentProcedures: the in-memory list after startup.
\* A startup that keeps what it could not parse as the one entry of the list.
LoadRecentProceduresKeepingRaw(entry, list) ==
  IF entry.kind = "absent" THEN list
  ELSE IF JSONparses(entry) THEN JSONparse(entry)
  ELSE << Proc(entry.kind) >>

LoadRecentProcedures(entry, list) ==
  IF entry.kind = "absent" THEN list
  ELSE IF JSONparses(entry) THEN JSONparse(entry)
  ELSE << >>

\* --------------------------------------------- Graph3D.vue: the graph store
\* The object response.json() builds: every node and link is a fresh object
\* without transient fields.
FreshNode(n) ==
  [id |-> n.id, name |-> n.name, highlighted |-> Undefined, opacity |-> Undefined]
FreshLink(l) ==
  [source |-> l.source, target |-> l.target, type |-> l.type,
   confidence |-> l.confidence, highlighted |-> Undefined, opacity |-> Undefined]

\* The value of graphData: an object with nodes and links, or a parsed JSON
\* document that has neither (shape "other": .nodes and .links are undefined).
Store(sh, ns, ls) == [shape |-> sh, nodes |-> ns, links |-> ls]

ParsedBody(resp) ==
  IF resp.body = "graph"
  THEN Store("graph",
             [i \in 1..Len(resp.graph.nodes) |-> FreshNode(resp.graph.nodes[i])],
             [i \in 1..Len(resp.graph.links) |-> FreshLink(resp.graph.links[i])])
  ELSE Store("other", << >>, << >>)

\* The nodes and links of a store without their transient fields.
RawOf(gd) ==
  [nodes |-> [i \in 1..Len(gd.nodes) |-> RawNode(gd.nodes[i].id, gd.nodes[i].name)],
   links |-> [i \in 1..Len(gd.links) |->
                RawLink(gd.links[i].source, gd.links[i].target,
                        gd.links[i].type, gd.links[i].confidence)]]

\* What the link opacity accessor of updateNodesAppearance renders.
ShownOpacity(x) == IF x.opacity # Undefined THEN x.opacity ELSE "1"
ShownHighlighted(x) == x.highlighted = "true"

\* A node or link with its transient fields set.
Mark(x, h, o) == [x EXCEPT !.highlighted = h, !.opacity = o]

\* loadData that adds the new nodes and links to the ones it holds.
LoadDataMerging(gd, data) == Store(data.shape, gd.nodes \o data.nodes, gd.links \o data.links)

\* loadData that resets the transient fields of what it installs.
LoadDataResetting(gd, data) ==
  Store(data.shape,
        [i \in 1..Len(data.nodes) |-> Mark(data.nodes[i], "false", "1")],
        [i \in 1..Len(data.links) |-> Mark(data.links[i], "false", "1")])

\* loadData: the store becomes the given object (by reference).
LoadData(gd, data) == data

MarkNode(nodes, id, h, o) ==
  [i \in 1..Len(nodes) |-> IF nodes[i].id = id THEN Mark(nodes[i], h, o) ELSE nodes[i]]

\* A filter that lets every link through.
TouchesAny(l, id) == TRUE

\* A filter that looks at the source of a link only.
TouchesAsSource(l, id) == l.source = id

\* links.filter(l => l.source === node || l.target === node)
Touches(l, id) == l.source = id \/ l.target = id

\* The far end taken to be the target of the link always.
OtherEndIsTarget(l, id) == l.target

\* l.source === node ? l.target : l.source
OtherEnd(l, id) == IF l.source = id THEN l.target ELSE l.source

\* The forEach over connectedLinks, link by link in store order: the link is
\* highlighted and so is the node at its other end.
RECURSIVE HighlightConnected(_, _, _)
HighlightConnected(gd, id, k) ==
  IF k > Len(gd.links) THEN gd
  ELSE IF Touches(gd.links[k], id)
  THEN LET l == gd.links[k]
           connectedNode == OtherEnd(l, id)
       IN HighlightConnected(
            Store(gd.shape,
                  MarkNode(gd.nodes, connectedNode, "true", "0.8"),
                  [gd.links EXCEPT ![k] = Mark(l, "true", "1")]),
            id, k + 1)
  ELSE HighlightConnected(gd, id, k + 1)

\* highlightNode(node), node being the node of the store with this id.
HighlightNode(gd, id) ==
  LET dimmed == Store(gd.shape,
                      [i \in 1..Len(gd.nodes) |-> Mark(gd.nodes[i], "false", "0.2")],
                      [i \in 1..Len(gd.links) |-> Mark(gd.links[i], "false", "0.1")])
      chosen == Store(dimmed.shape, MarkNode(dimmed.nodes, id, "true", "1"), dimmed.links)
  IN HighlightConnected(chosen, id, 1)

\* A reset that forgets the links.
ResetHighlightOfNodes(gd) ==
  Store(gd.shape, [i \in 1..Len(gd.nodes) |-> Mark(gd.nodes[i], "false", "1")], gd.links)

\* resetHighlight.
ResetHighlight(gd) ==
  Store(gd.shape,
        [i \in 1..Len(gd.nodes) |-> Mark(gd.nodes[i], "false", "1")],
        [i \in 1..Len(gd.links) |-> Mark(gd.links[i], "false", "1")])

\* A loop that needs the confidence to exceed the threshold.
ApplyConfidenceAbove(gd, t) ==
  Store(gd.shape, gd.nodes,
        [i \in 1..Len(gd.links) |->
           [gd.links[i] EXCEPT !.opacity =
              IF gd.links[i].confidence > t THEN "1" ELSE "0.3"]])

\* A loop that leaves the links of the selection as highlightNode set them.
ApplyConfidenceUnlessHighlighted(gd, t) ==
  Store(gd.shape, gd.nodes,
        [i \in 1..Len(gd.links) |->
           IF gd.links[i].highlighted = "true" THEN gd.links[i]
           ELSE [gd.links[i] EXCEPT !.opacity =
                   IF gd.links[i].confidence >= t THEN "1" ELSE "0.3"]])

\* The loop of confidenceChanged: link.confidence >= threshold ? 1 : 0.3.
\* A handler that also takes the highlight off every link.
ApplyConfidenceClearingHighlight(gd, t) ==
  Store(gd.shape, gd.nodes,
        [i \in 1..Len(gd.links) |->
           Mark(gd.links[i], "false", IF gd.links[i].confidence >= t THEN "1" ELSE "0.3")])

ApplyConfidence(gd, t) ==
  Store(gd.shape, gd.nodes,
        [i \in 1..Len(gd.links) |->
           [gd.links[i] EXCEPT !.opacity =
              IF gd.links[i].confidence >= t THEN "1" ELSE "0.3"]])

\* link.confidence < confidenceThreshold.value: false when the link has no
\* confidence (undefined converts to NaN, and every comparison with NaN is
\* false).
BelowThreshold(link, t) == link.confidence # NoConfidence /\ link.confidence < t

\* A colour rule that looks at the type before the confidence.
GetLinkColorTypeFirst(link, t) ==
  IF link.type = "CALLS" THEN "#9b59b6"
  ELSE IF link.type = "REFERENCES" THEN "#2ecc71"
  ELSE IF link.type = "DYN_REFERENCES" THEN "#f39c12"
  ELSE IF BelowThreshold(link, t) THEN "#e74c3c"
  ELSE "#95a5a6"

\* getLinkColor, with t the value of confidenceThreshold.
GetLinkColor(link, t) ==
  IF BelowThreshold(link, t) THEN "#e74c3c"
  ELSE IF link.type = "CALLS" THEN "#9b59b6"
  ELSE IF link.type = "REFERENCES" THEN "#2ecc71"
  ELSE IF link.type = "DYN_REFERENCES" THEN "#f39c12"
  ELSE "#95a5a6"

\* The link colour accessor initGraph installs: the 3D branch and the 2D
\* branch each pass link => getLinkColor(link).
LinkColor(threeD, link, t) ==
  IF threeD THEN GetLinkColor(link, t) ELSE GetLinkColor(link, t)

\* getLinkWidth: (link.confidence || 0.5) * 3, in tenths as the confidences
\* are.  The || takes its right side for every falsy left side: for an
\* absent confidence and for a confidence of 0.
GetLinkWidth(link) ==
  (IF link.confidence = NoConfidence \/ link.confidence = 0 THEN 5 ELSE link.confidence) * 3

\* The link width accessor initGraph installs: the 3D branch and the 2D
\* branch each pass link => getLinkWidth(link).
LinkWidth(threeD, link) == IF threeD THEN GetLinkWidth(link) ELSE GetLinkWidth(link)

\* nodes.find(n => n.name === name): the id of the first such node, or 0.
FindByName(nodes, name) ==
  IF \E i \in 1..Len(nodes) : nodes[i].name = name
  THEN nodes[CHOOSE i \in 1..Len(nodes) :
               /\ nodes[i].name = name
               /\ \A j \in 1..(i - 1) : nodes[j].name # name].id
  ELSE 0

NodeById(nodes, id) == nodes[CHOOSE i \in 1..Len(nodes) : nodes[i].id = id]

\* A reference to a node object: its id and name, and whether the object is
\* an element of the store (it is not once the store holds another object).
NodeRef(n, inStore) == [id |-> n.id, name |-> n.name, inStore |-> inStore]
NoNode == [id |-> 0, name |-> Null, inStore |-> FALSE]

Detach(sel) == IF sel = NoNode THEN sel ELSE [sel EXCEPT !.inStore = FALSE]

\* The rendering adapter held in `graph`: its variant, where its camera was
\* last sent, the object it draws ("store": the object graphData holds), and
\* how many adapters were constructed and not destroyed up to this one.
Adapter(v, cam, d, n) == [variant |-> v, camera |-> cam, data |-> d, live |-> n]

\* Where a camera was last sent: nowhere yet ("unset"), the initial 3D
\* position ("z250"), the origin view of resetCamera, or a node.
Camera(at, id) == [at |-> at, node |-> id]
NoAdapter == Adapter("none", Camera("unset", 0), "none", 0)

\* A switch that leaves the adapter it replaces alive.
DestructorSkipped(g) == g.live

\* if (graph.value) graph.value._destructor(): the adapters left alive.
Destructor(g) == IF g.variant # "none" THEN g.live - 1 ELSE g.live

\* initGraph next to `others` live adapters: a new adapter of the variant
\* is3D asks for; only the 3D one is given a camera position.
InitGraph(threeD, others) ==
  IF threeD THEN Adapter("3D", Camera("z250", 0), "none", others + 1)
  ELSE Adapter("2D", Camera("unset", 0), "none", others + 1)

\* A switch that starts the new adapter on an empty graph.
ToggledViewEmptied(threeD, g, gd) ==
  [is3D |-> ~threeD,
   graph |-> [InitGraph(~threeD, Destructor(g)) EXCEPT !.data = "store"],
   graphData |-> LoadData(gd, Store("graph", << >>, << >>))]

\* A switch that takes the highlight off the graph it reloads.
ToggledViewUnhighlighted(threeD, g, gd) ==
  [is3D |-> ~threeD,
   graph |-> [InitGraph(~threeD, Destructor(g)) EXCEPT !.data = "store"],
   graphData |-> IF gd.shape = "graph" THEN ResetHighlight(gd) ELSE gd]

\* toggleView: flip is3D, destroy the adapter, initGraph, loadData(currentData).
ToggledView(threeD, g, gd) ==
  [is3D |-> ~threeD,
   graph |-> [InitGraph(~threeD, Destructor(g)) EXCEPT !.data = "store"],
   graphData |-> LoadData(gd, gd)]

\* What setup() returns: the members a parent reaches through its ref.
Graph3DMembers ==
  { "graphContainer", "searchTerm", "selectedNode", "depth", "confidenceThreshold",
    "is3D", "searchNode", "loadDetails", "analyzeImpact", "closeDetails",
    "depthChanged", "confidenceChanged", "toggleView", "resetCamera", "exportImage" }

Depths == {3, 4}
Thresholds == {5, 9}

\* ---------------------------------------------------------------- requests
Request(k, n, d, c, st) == [kind |-> k, name |-> n, depth |-> d, conf |-> c, status |-> st]

Pending(reqs, kind) ==
  { i \in 1..Len(reqs) : reqs[i].kind = kind /\ reqs[i].status = "pending" }

\* A completed request keeps its place in the issue order, and what became
\* of it: "applied" (the handler ran to its end) or "failed" (its catch ran).
\* A settling that forgets the fetches that failed: they stay pending.
SettleApplied(reqs, i, st) ==
  IF st = "failed" THEN reqs
  ELSE [reqs EXCEPT ![i] = Request(reqs[i].kind, "", 0, 0, st)]

Settle(reqs, i, st) == [reqs EXCEPT ![i] = Request(reqs[i].kind, "", 0, 0, st)]

NoResponse == Response("none", "none", EmptyGraph, << >>)

\* What the step just taken did: the handler that ran, the request it
\* completed (0: none), the answer it was given, whether it called loadData.
Did(op, i, resp, ld) == [op |-> op, req |-> i, resp |-> resp, loadData |-> ld]

VARIABLES
  phase,                \* "created", then "mounted"
  storage,              \* the local storage entry 'recentProcedures'
  recentProcedures,     \* App: the in-memory recent list
  searchResults,        \* App: names of the search results shown
  appGraphData,         \* App: its own graphData ref (the initialData prop)
  appRequests,          \* App: the gateway calls it issued, in issue order
  loaded,               \* names of the sidebar's successful call-chain loads
  showUpload,           \* App: the upload dialog is open
  selectedFiles,        \* App: the files chosen in the upload dialog
  graphData,            \* Graph3D: the graph store
  selectedNode,         \* Graph3D: reference to the selected node object
  graph,                \* Graph3D: the rendering adapter
  is3D,
  depth,
  confidenceThreshold,
  requests,             \* Graph3D: the fetches it issued, in issue order
  alert,                \* the message the step just taken showed the user
  last                  \* what the step just taken did

uploadVars == << showUpload, selectedFiles >>
appVars ==
  << storage, recentProcedures, searchResults, appGraphData, appRequests, loaded, uploadVars >>
graphVars == << graphData, selectedNode, graph, is3D, depth, confidenceThreshold, requests >>
vars == << phase, appVars, graphVars, alert, last >>

Setup ==
  /\ phase = "created"
  /\ recentProcedures = << >>
  /\ searchResults = << >>
  /\ appGraphData = EmptyGraph
  /\ appRequests = << >>
  /\ loaded = << >>
  /\ showUpload = FALSE
  /\ selectedFiles = << >>
  /\ graphData = Store("graph", << >>, << >>)
  /\ selectedNode = NoNode
  /\ graph = NoAdapter
  /\ is3D = TRUE
  /\ depth = DefaultDepth
  /\ confidenceThreshold = DefaultConfidence
  /\ requests = << >>
  /\ alert = NoAlert
  /\ last = Did("setup", 0, NoResponse, FALSE)

\* onMounted of Graph3D (initGraph, then loadData(initialData)), then
\* onMounted of App (loadRecentProcedures).
Mounted ==
  /\ phase = "created"
  /\ phase' = "mounted"
  /\ graph' = [InitGraph(is3D, graph.live) EXCEPT !.data = "store"]
  /\ graphData' = LoadData(graphData,
                           Store("graph",
                                 [i \in 1..Len(appGraphData.nodes) |-> FreshNode(appGraphData.nodes[i])],
                                 [i \in 1..Len(appGraphData.links) |-> FreshLink(appGraphData.links[i])]))
  /\ recentProcedures' = LoadRecentProcedures(storage, recentProcedures)
  /\ alert' = NoAlert
  /\ last' = Did("mounted", 0, NoResponse, TRUE)
  /\ UNCHANGED << storage, searchResults, appGraphData, appRequests, loaded, uploadVars,
                  selectedNode, is3D, depth, confidenceThreshold, requests >>

\* ------------------------------------------------------- App.vue: handlers
\* search(): nothing happens on an empty search box.
Search(kw) ==
  /\ phase = "mounted"
  /\ kw # ""
  /\ Len(appRequests) < MaxAppRequests
  /\ appRequests' = Append(appRequests, Request("search", kw, 0, 0, "pending"))
  /\ alert' = NoAlert
  /\ last' = Did("appSearch", Len(appRequests) + 1, NoResponse, FALSE)
  /\ UNCHANGED << phase, storage, recentProcedures, searchResults, appGraphData,
                  loaded, uploadVars, graphVars >>

\* The await of search() returns: results shown, or the failure alert.
SearchDone(i, resp) ==
  /\ i \in Pending(appRequests, "search")
  /\ IF AxiosResolves(resp)
     THEN /\ searchResults' = resp.procs
          /\ appRequests' = Settle(appRequests, i, "applied")
          /\ alert' = NoAlert
     ELSE /\ appRequests' = Settle(appRequests, i, "failed")
          /\ alert' = "searchFailed"
          /\ UNCHANGED searchResults
  /\ last' = Did("appSearchDone", i, resp, FALSE)
  /\ UNCHANGED << phase, storage, recentProcedures, appGraphData, loaded, uploadVars,
                  graphVars >>

\* loadCallChain(procedureName) of App up to its await: api.getCallChain
\* with the default depth and confidence.
AppLoadCallChain(name, via) ==
  /\ phase = "mounted"
  /\ Len(appRequests) < MaxAppRequests
  /\ appRequests' = Append(appRequests,
                           Request("callChain", name, DefaultDepth, DefaultConfidence, "pending"))
  /\ alert' = NoAlert
  /\ last' = Did(via, Len(appRequests) + 1, NoResponse, FALSE)
  /\ UNCHANGED << phase, storage, recentProcedures, searchResults, appGraphData,
                  loaded, uploadVars, graphVars >>

\* A click on a search result, and a click on an item of the recent panel.
ClickSearchResult(k) ==
  /\ k \in 1..Len(searchResults)
  /\ AppLoadCallChain(searchResults[k], "clickSearchResult")

ClickRecent(k) ==
  /\ k \in 1..Len(recentProcedures)
  /\ AppLoadCallChain(recentProcedures[k].name, "clickRecent")

\* The items of the recent panel the model clicks: the first, the second
\* and the last.
ClickPositions(list) == {1, 2, Len(list)} \cap (1..Len(list))

\* graph3d.value.loadData(...): a member setup() does not return is
\* undefined on the ref, and calling it throws.
RefCallThrows(member) == member \notin Graph3DMembers

\* The await of App's loadCallChain returns.  On success: graphData.value,
\* addToRecentProcedures (list and storage), then the call through the ref,
\* whose exception lands in the catch like a gateway failure.
AppLoadCallChainDone(i, resp) ==
  /\ i \in Pending(appRequests, "callChain")
  /\ IF AxiosResolves(resp)
     THEN /\ appGraphData' = resp.graph
          /\ recentProcedures' =
               AddToRecentProcedures(recentProcedures, Proc(appRequests[i].name))
          /\ storage' = JSONstringify(recentProcedures')
          /\ loaded' = Append(loaded, appRequests[i].name)
          /\ IF RefCallThrows("loadData")
             THEN /\ appRequests' = Settle(appRequests, i, "failed")
                  /\ alert' = "loadCallChainFailed"
                  /\ last' = Did("appLoadCallChainDone", i, resp, FALSE)
                  /\ UNCHANGED << graphData, selectedNode, graph >>
             ELSE /\ appRequests' = Settle(appRequests, i, "applied")
                  /\ alert' = NoAlert
                  /\ graphData' = LoadData(graphData, ParsedBody(resp))
                  /\ selectedNode' = Detach(selectedNode)
                  /\ graph' = [graph EXCEPT !.data = "store"]
                  /\ last' = Did("appLoadCallChainDone", i, resp, TRUE)
     ELSE /\ appRequests' = Settle(appRequests, i, "failed")
          /\ alert' = "loadCallChainFailed"
          /\ last' = Did("appLoadCallChainDone", i, resp, FALSE)
          /\ UNCHANGED << storage, recentProcedures, appGraphData, loaded,
                          graphData, selectedNode, graph >>
  /\ UNCHANGED << phase, searchResults, uploadVars, is3D, depth, confidenceThreshold, requests >>

\* ------------------------------------------------- App.vue: upload dialog
\* What the file input hands to handleFileUpload.
FileSelections == { << >>, << "a.sql" >>, << "a.sql", "b.pls" >> }

\* What the gateway answers to POST /upload: the result document with its
\* list of procedures, a failure, or a 2xx answer whose body is not JSON.
UploadResponses ==
  { Response("ok", "upload", EmptyGraph, << >>),
    Response("ok", "upload", EmptyGraph, << "SP_A", "SP_B" >>),
    Rejected,
    Response("error", "errorJson", EmptyGraph, << >>),
    Response("ok", "notJson", EmptyGraph, << >>) }

\* The await fetch, the response.ok test and the await response.json() of
\* uploadFiles all pass.
UploadResolves(resp) == resp.status = "ok" /\ resp.body # "notJson"

\* showUploadDialog (the upload button of the header).
ShowUploadDialog ==
  /\ phase = "mounted"
  /\ ~showUpload
  /\ showUpload' = TRUE
  /\ alert' = NoAlert
  /\ last' = Did("showUploadDialog", 0, NoResponse, FALSE)
  /\ UNCHANGED << phase, storage, recentProcedures, searchResults, appGraphData,
                  appRequests, loaded, selectedFiles, graphVars >>

\* handleFileUpload: the file input of the open dialog changes.
HandleFileUpload(files) ==
  /\ showUpload
  /\ files # selectedFiles
  /\ selectedFiles' = files
  /\ alert' = NoAlert
  /\ last' = Did("handleFileUpload", 0, NoResponse, FALSE)
  /\ UNCHANGED << phase, storage, recentProcedures, searchResults, appGraphData,
                  appRequests, loaded, showUpload, graphVars >>

\* What cancelUpload leaves of the dialog and the chosen files.
CancelledUpload == [showUpload |-> FALSE, selectedFiles |-> << >>]

\* cancelUpload (the cancel button of the open dialog).
CancelUpload ==
  /\ showUpload
  /\ showUpload' = CancelledUpload.showUpload
  /\ selectedFiles' = CancelledUpload.selectedFiles
  /\ alert' = NoAlert
  /\ last' = Did("cancelUpload", 0, NoResponse, FALSE)
  /\ UNCHANGED << phase, storage, recentProcedures, searchResults, appGraphData,
                  appRequests, loaded, graphVars >>

\* uploadFiles up to its await: the button is disabled, and the handler
\* returns, while no file is chosen.
UploadFiles(max) ==
  /\ showUpload
  /\ Len(selectedFiles) > 0
  /\ Len(appRequests) < max
  /\ appRequests' = Append(appRequests, Request("upload", "", 0, 0, "pending"))
  /\ alert' = NoAlert
  /\ last' = Did("uploadFiles", Len(appRequests) + 1, NoResponse, FALSE)
  /\ UNCHANGED << phase, storage, recentProcedures, searchResults, appGraphData,
                  loaded, uploadVars, graphVars >>

\* A continuation whose catch closes the dialog as well.
UploadFilesCallbackClosing(i, resp, max) ==
  /\ i \in Pending(appRequests, "upload")
  /\ last' = Did("uploadFilesDone", i, resp, FALSE)
  /\ showUpload' = CancelledUpload.showUpload
  /\ selectedFiles' = CancelledUpload.selectedFiles
  /\ IF UploadResolves(resp)
     THEN /\ alert' = "uploaded"
          /\ IF Len(resp.procs) > 0
             THEN /\ Len(appRequests) < max
                  /\ appRequests' =
                       Append(Settle(appRequests, i, "applied"),
                              Request("callChain", resp.procs[1], DefaultDepth,
                                      DefaultConfidence, "pending"))
             ELSE appRequests' = Settle(appRequests, i, "applied")
     ELSE /\ alert' = "uploadFailed"
          /\ appRequests' = Settle(appRequests, i, "failed")
  /\ UNCHANGED << phase, storage, recentProcedures, searchResults, appGraphData,
                  loaded, graphVars >>

\* The code after the awaits of uploadFiles for request i answered by resp:
\* the result alert, cancelUpload, then loadCallChain of the first procedure
\* listed; every failure lands in the catch, which alerts and nothing else.
UploadFilesCallback(i, resp, max) ==
  /\ i \in Pending(appRequests, "upload")
  /\ last' = Did("uploadFilesDone", i, resp, FALSE)
  /\ IF UploadResolves(resp)
     THEN /\ alert' = "uploaded"
          /\ showUpload' = CancelledUpload.showUpload
          /\ selectedFiles' = CancelledUpload.selectedFiles
          /\ IF Len(resp.procs) > 0
             THEN /\ Len(appRequests) < max
                  /\ appRequests' =
                       Append(Settle(appRequests, i, "applied"),
                              Request("callChain", resp.procs[1], DefaultDepth,
                                      DefaultConfidence, "pending"))
             ELSE appRequests' = Settle(appRequests, i, "applied")
     ELSE /\ alert' = "uploadFailed"
          /\ appRequests' = Settle(appRequests, i, "failed")
          /\ UNCHANGED uploadVars
  /\ UNCHANGED << phase, storage, recentProcedures, searchResults, appGraphData,
                  loaded, graphVars >>

\* The awaits of uploadFiles return.
UploadFilesDone(i, resp, max) == UploadFilesCallback(i, resp, max)

UploadStep(max) ==
  \/ ShowUploadDialog
  \/ \E files \in FileSelections : HandleFileUpload(files)
  \/ CancelUpload
  \/ UploadFiles(max)
  \/ \E i \in 1..max, resp \in UploadResponses : UploadFilesDone(i, resp, max)

\* --------------------------------------------------- Graph3D.vue: handlers
\* handleNodeClick(node) on a node of the store: select it, highlight it.
HandleNodeClick(id) ==
  /\ phase = "mounted"
  /\ graphData.shape = "graph"
  /\ \E i \in 1..Len(graphData.nodes) : graphData.nodes[i].id = id
  /\ selectedNode' = NodeRef(NodeById(graphData.nodes, id), TRUE)
  /\ graphData' = HighlightNode(graphData, id)
  /\ alert' = NoAlert
  /\ last' = Did("handleNodeClick", 0, NoResponse, FALSE)
  /\ UNCHANGED << phase, appVars, graph, is3D, depth, confidenceThreshold, requests >>

\* What clearSelection leaves of the selection and the store.  On a store
\* without nodes resetHighlight throws after the selection was dropped.
Cleared(sel, gd) ==
  [selectedNode |-> NoNode,
   graphData |-> IF gd.shape = "graph" THEN ResetHighlight(gd) ELSE gd]

\* clearSelection (a click on the background).
ClearSelection ==
  /\ phase = "mounted"
  /\ selectedNode' = Cleared(selectedNode, graphData).selectedNode
  /\ graphData' = Cleared(selectedNode, graphData).graphData
  /\ alert' = NoAlert
  /\ last' = Did("clearSelection", 0, NoResponse, FALSE)
  /\ UNCHANGED << phase, appVars, graph, is3D, depth, confidenceThreshold, requests >>

\* closeDetails (the close button of the panel, and Escape through App),
\* while a node is selected.
CloseDetails ==
  /\ phase = "mounted"
  /\ selectedNode # NoNode
  /\ selectedNode' = NoNode
  /\ alert' = NoAlert
  /\ last' = Did("closeDetails", 0, NoResponse, FALSE)
  /\ UNCHANGED << phase, appVars, graphData, graph, is3D, depth, confidenceThreshold, requests >>

\* loadCallChain(nodeName) of Graph3D up to its await: the fetch carries the
\* current depth and confidence threshold.
LoadCallChain(reqs, name, d, c) == Append(reqs, Request("callChain", name, d, c, "pending"))

\* The depth slider is moved to d (v-model), then depthChanged runs.
DepthChanged(d, max) ==
  /\ phase = "mounted"
  /\ d # depth
  /\ depth' = d
  /\ IF selectedNode # NoNode
     THEN /\ Len(requests) < max
          /\ requests' = LoadCallChain(requests, selectedNode.name, d, confidenceThreshold)
          /\ last' = Did("depthChanged", Len(requests) + 1, NoResponse, FALSE)
     ELSE /\ UNCHANGED requests
          /\ last' = Did("depthChanged", 0, NoResponse, FALSE)
  /\ alert' = NoAlert
  /\ UNCHANGED << phase, appVars, graphData, selectedNode, graph, is3D, confidenceThreshold >>

\* The confidence slider is moved to t (v-model), then confidenceChanged
\* runs; on a store without links the forEach throws.
ConfidenceChanged(t) ==
  /\ phase = "mounted"
  /\ t # confidenceThreshold
  /\ confidenceThreshold' = t
  /\ graphData' = IF graphData.shape = "graph" THEN ApplyConfidence(graphData, t) ELSE graphData
  /\ alert' = NoAlert
  /\ last' = Did("confidenceChanged", 0, NoResponse, FALSE)
  /\ UNCHANGED << phase, appVars, selectedNode, graph, is3D, depth, requests >>

\* The view button is clicked.
ToggleView ==
  /\ phase = "mounted"
  /\ is3D' = ToggledView(is3D, graph, graphData).is3D
  /\ graph' = ToggledView(is3D, graph, graphData).graph
  /\ graphData' = ToggledView(is3D, graph, graphData).graphData
  /\ alert' = NoAlert
  /\ last' = Did("toggleView", 0, NoResponse, TRUE)
  /\ UNCHANGED << phase, appVars, selectedNode, depth, confidenceThreshold, requests >>

\* resetCamera, when the camera is not at the origin view already.
ResetCamera ==
  /\ phase = "mounted"
  /\ graph.camera.at # "origin"
  /\ graph' = [graph EXCEPT !.camera = Camera("origin", 0)]
  /\ alert' = NoAlert
  /\ last' = Did("resetCamera", 0, NoResponse, FALSE)
  /\ UNCHANGED << phase, appVars, graphData, selectedNode, is3D, depth, confidenceThreshold, requests >>

\* What exportImage finds in the container: a canvas, no canvas, or a
\* container or canvas whose use throws.
Surfaces == {"canvas", "noCanvas", "throws"}

\* exportImage: without a canvas it returns; with one it hands the blob to
\* saveAs; only an exception reaches the alert of the catch.
ExportImage(surface) ==
  /\ phase = "mounted"
  /\ alert' = IF surface = "throws" THEN "exportFailed" ELSE NoAlert
  /\ last' = Did("exportImage", 0, Response("none", surface, EmptyGraph, << >>), FALSE)
  /\ UNCHANGED << phase, appVars, graphVars >>

\* searchNode up to its await; nothing happens on an empty search box.
SearchNode(kw, max) ==
  /\ phase = "mounted"
  /\ kw # ""
  /\ Len(requests) < max
  /\ requests' = Append(requests, Request("search", kw, 0, 0, "pending"))
  /\ alert' = NoAlert
  /\ last' = Did("searchNode", Len(requests) + 1, NoResponse, FALSE)
  /\ UNCHANGED << phase, appVars, graphData, selectedNode, graph, is3D, depth, confidenceThreshold >>

\* The code after the awaits of searchNode, for request i answered by resp.
SearchNodeCallback(i, resp, max) ==
  /\ i \in Pending(requests, "search")
  /\ last' = Did("searchNodeDone", i, resp, FALSE)
  /\ IF ~FetchJsonResolves(resp)
     THEN \* the catch
          /\ requests' = Settle(requests, i, "failed")
          /\ alert' = "searchFailed"
          /\ UNCHANGED << graphData, selectedNode, graph >>
     ELSE IF resp.body = "procedures" /\ Len(resp.procs) > 0
     THEN IF graphData.shape # "graph"
          THEN \* graphData.value.nodes is undefined: .find throws into the catch
               /\ requests' = Settle(requests, i, "failed")
               /\ alert' = "searchFailed"
               /\ UNCHANGED << graphData, selectedNode, graph >>
          ELSE LET node == FindByName(graphData.nodes, resp.procs[1])
               IN IF node # 0
                  THEN \* handleNodeClick(node), then the camera is centred on it
                       /\ selectedNode' = NodeRef(NodeById(graphData.nodes, node), TRUE)
                       /\ graphData' = HighlightNode(graphData, node)
                       /\ graph' = [graph EXCEPT !.camera = Camera("node", node)]
                       /\ requests' = Settle(requests, i, "applied")
                       /\ alert' = NoAlert
                  ELSE \* loadCallChain(procedure.name)
                       /\ Len(requests) < max
                       /\ requests' = LoadCallChain(Settle(requests, i, "applied"),
                                                    resp.procs[1], depth, confidenceThreshold)
                       /\ alert' = NoAlert
                       /\ UNCHANGED << graphData, selectedNode, graph >>
     ELSE /\ requests' = Settle(requests, i, "applied")
          /\ alert' = "notFound"
          /\ UNCHANGED << graphData, selectedNode, graph >>
  /\ UNCHANGED << phase, appVars, is3D, depth, confidenceThreshold >>

\* A callback that also clears the selection when nothing was found.
SearchNodeCallbackClearing(i, resp, max) ==
  IF FetchJsonResolves(resp) /\ ~(resp.body = "procedures" /\ Len(resp.procs) > 0)
  THEN /\ i \in Pending(requests, "search")
       /\ last' = Did("searchNodeDone", i, resp, FALSE)
       /\ requests' = Settle(requests, i, "applied")
       /\ alert' = "notFound"
       /\ selectedNode' = Cleared(selectedNode, graphData).selectedNode
       /\ graphData' = Cleared(selectedNode, graphData).graphData
       /\ UNCHANGED << phase, appVars, graph, is3D, depth, confidenceThreshold >>
  ELSE SearchNodeCallback(i, resp, max)

\* The awaits of searchNode return.
SearchNodeDone(i, resp, max) == SearchNodeCallback(i, resp, max)

\* What the code after the awaits of loadCallChain leaves, for request i of
\* reqs answered by resp: the store, the selection, the alert, whether
\* loadData ran and whether the handler ended in its catch.
Outcome(gd, sel, al, ld, st) ==
  [graphData |-> gd, selectedNode |-> sel, alert |-> al, loadData |-> ld, status |-> st]

\* A catch that installs an empty graph.
CallChainCallbackClearing(gd, sel, reqs, i, resp) ==
  IF ~FetchJsonResolves(resp)
  THEN Outcome(LoadData(gd, Store("graph", << >>, << >>)), Detach(sel),
               "loadCallChainFailed", TRUE, "failed")
  ELSE Outcome(gd, sel, "loadCallChainFailed", FALSE, "failed")

\* A callback that installs the graph and leaves the selection to the user.
CallChainCallbackInstalling(gd, sel, reqs, i, resp) ==
  IF ~FetchJsonResolves(resp)
  THEN Outcome(gd, sel, "loadCallChainFailed", FALSE, "failed")
  ELSE LET data == ParsedBody(resp)
       IN IF data.shape # "graph"
          THEN Outcome(LoadData(gd, data), Detach(sel), "loadCallChainFailed", TRUE, "failed")
          ELSE Outcome(LoadData(gd, data), Detach(sel), NoAlert, TRUE, "applied")

CallChainCallback(gd, sel, reqs, i, resp) ==
  IF ~FetchJsonResolves(resp)
  THEN Outcome(gd, sel, "loadCallChainFailed", FALSE, "failed")
  ELSE LET data == ParsedBody(resp)
           installed == LoadData(gd, data)
       IN IF data.shape # "graph"
          THEN \* data.nodes is undefined: .find throws into the catch
               Outcome(installed, Detach(sel), "loadCallChainFailed", TRUE, "failed")
          ELSE LET node == FindByName(data.nodes, reqs[i].name)
               IN IF node # 0
                  THEN Outcome(HighlightNode(installed, node),
                               NodeRef(NodeById(data.nodes, node), TRUE),
                               NoAlert, TRUE, "applied")
                  ELSE Outcome(installed, Detach(sel), NoAlert, TRUE, "applied")

\* A continuation that drops a response once a call-chain fetch was issued
\* after its own.
LatestOnlyResponse(gd, sel, reqs, i, resp) ==
  IF \E j \in (i + 1)..Len(reqs) : reqs[j].kind = "callChain"
  THEN Outcome(gd, sel, NoAlert, FALSE, "applied")
  ELSE CallChainCallback(gd, sel, reqs, i, resp)

\* The continuation of loadCallChain runs for every fetch that completes,
\* whatever was issued after it: nothing compares a response with the
\* requests issued since.
OnCallChainResponse(gd, sel, reqs, i, resp) == CallChainCallback(gd, sel, reqs, i, resp)

LoadCallChainDone(i, resp) ==
  /\ i \in Pending(requests, "callChain")
  /\ LET out == OnCallChainResponse(graphData, selectedNode, requests, i, resp)
     IN /\ graphData' = out.graphData
        /\ selectedNode' = out.selectedNode
        /\ alert' = out.alert
        /\ requests' = Settle(requests, i, out.status)
        /\ graph' = IF out.loadData THEN [graph EXCEPT !.data = "store"] ELSE graph
        /\ last' = Did("loadCallChainDone", i, resp, out.loadData)
  /\ UNCHANGED << phase, appVars, is3D, depth, confidenceThreshold >>

\* ------------------------------------------- Graph3D.vue: the detail panel
\* What the gateway answers to /procedure/<name> and to /impact/<name>.
DetailsResponses ==
  { Response("ok", "details", EmptyGraph, << >>), Rejected,
    Response("error", "errorJson", EmptyGraph, << >>),
    Response("error", "notJson", EmptyGraph, << >>) }
ImpactResponses ==
  { Response("ok", "impact", EmptyGraph, << >>), Rejected,
    Response("error", "errorJson", EmptyGraph, << >>),
    Response("error", "notJson", EmptyGraph, << >>) }

\* graphData.value.nodes.find(n => n.id === nodeId): its position, or 0.
FindById(nodes, id) ==
  IF \E i \in 1..Len(nodes) : nodes[i].id = id
  THEN CHOOSE i \in 1..Len(nodes) : nodes[i].id = id /\ \A j \in 1..(i - 1) : nodes[j].id # id
  ELSE 0

\* A panel button is pressed (the panel shows while a node is selected):
\* the handler up to its await.  On a store without nodes .find throws into
\* the catch; when the store has no node of that id the handler returns.
PanelButton(op, kind, d, max) ==
  /\ phase = "mounted"
  /\ selectedNode # NoNode
  /\ IF graphData.shape # "graph"
     THEN /\ alert' = kind \o "Failed"
          /\ last' = Did(op, 0, NoResponse, FALSE)
          /\ UNCHANGED requests
     ELSE LET k == FindById(graphData.nodes, selectedNode.id)
          IN IF k = 0
             THEN /\ alert' = NoAlert
                  /\ last' = Did(op, 0, NoResponse, FALSE)
                  /\ UNCHANGED requests
             ELSE /\ Len(requests) < max
                  /\ requests' = Append(requests,
                                        Request(kind, graphData.nodes[k].name, d, 0, "pending"))
                  /\ alert' = NoAlert
                  /\ last' = Did(op, Len(requests) + 1, NoResponse, FALSE)
  /\ UNCHANGED << phase, appVars, graphData, selectedNode, graph, is3D, depth, confidenceThreshold >>

\* loadDetails(selectedNode.id) up to its await.
LoadDetails(max) == PanelButton("loadDetails", "details", 0, max)

\* analyzeImpact(selectedNode.id) up to its await: the fetch carries the depth.
AnalyzeImpact(max) == PanelButton("analyzeImpact", "impact", depth, max)

\* The code after the awaits of loadDetails: the alert reads
\* data.called_sps.length, which throws on a body that has no such list.
LoadDetailsCallback(i, resp) ==
  /\ i \in Pending(requests, "details")
  /\ last' = Did("loadDetailsDone", i, resp, FALSE)
  /\ IF FetchJsonResolves(resp) /\ resp.body = "details"
     THEN /\ requests' = Settle(requests, i, "applied")
          /\ alert' = "details"
     ELSE /\ requests' = Settle(requests, i, "failed")
          /\ alert' = "detailsFailed"
  /\ UNCHANGED << phase, appVars, graphData, selectedNode, graph, is3D, depth, confidenceThreshold >>

\* A callback that closes the panel once the details were shown.
LoadDetailsCallbackClosing(i, resp) ==
  /\ i \in Pending(requests, "details")
  /\ last' = Did("loadDetailsDone", i, resp, FALSE)
  /\ requests' = Settle(requests, i, "applied")
  /\ alert' = "details"
  /\ selectedNode' = NoNode
  /\ UNCHANGED << phase, appVars, graphData, graph, is3D, depth, confidenceThreshold >>

\* The awaits of loadDetails return.
LoadDetailsDone(i, resp) == LoadDetailsCallback(i, resp)

\* The awaits of analyzeImpact return: the alert interpolates fields of the
\* body, which does not throw on a body that lacks them.
AnalyzeImpactDone(i, resp) ==
  /\ i \in Pending(requests, "impact")
  /\ last' = Did("analyzeImpactDone", i, resp, FALSE)
  /\ IF FetchJsonResolves(resp)
     THEN /\ requests' = Settle(requests, i, "applied")
          /\ alert' = "impact"
     ELSE /\ requests' = Settle(requests, i, "failed")
          /\ alert' = "impactFailed"
  /\ UNCHANGED << phase, appVars, graphData, selectedNode, graph, is3D, depth, confidenceThreshold >>

PanelStep(max) ==
  \/ LoadDetails(max)
  \/ AnalyzeImpact(max)
  \/ \E i \in 1..max, resp \in DetailsResponses : LoadDetailsDone(i, resp)
  \/ \E i \in 1..max, resp \in ImpactResponses : AnalyzeImpactDone(i, resp)

\* The steps that issue and complete fetches, with at most max fetches issued.
FetchStep(max) ==
  \/ \E id \in NodeIds : HandleNodeClick(id)
  \/ \E d \in Depths : DepthChanged(d, max)
  \/ \E kw \in Keywords : SearchNode(kw, max)
  \/ \E i \in 1..max, resp \in SearchResponses : SearchNodeDone(i, resp, max)
  \/ \E i \in 1..max, resp \in CallChainResponses : LoadCallChainDone(i, resp)

ViewStep ==
  \/ ClearSelection
  \/ CloseDetails
  \/ \E t \in Thresholds : ConfidenceChanged(t)
  \/ ToggleView
  \/ ResetCamera
  \/ \E surface \in Surfaces : ExportImage(surface)

AppStep ==
  \/ \E kw \in Keywords : Search(kw)
  \/ \E i \in 1..MaxAppRequests, resp \in AppSearchResponses : SearchDone(i, resp)
  \/ \E k \in 1..2 : ClickSearchResult(k)
  \/ \E k \in ClickPositions(recentProcedures) : ClickRecent(k)
  \/ \E i \in 1..MaxAppRequests, resp \in AppCallChainResponses : AppLoadCallChainDone(i, resp)

InitApp == Setup /\ storage \in StartEntries
NextApp == Mounted \/ AppStep
SpecApp == InitApp /\ [][NextApp]_vars

\* The visualization component, every handler.
Init == Setup /\ storage = NoEntry
Next == Mounted \/ FetchStep(MaxGraphRequests) \/ ViewStep
Spec == Init /\ [][Next]_vars

\* The visualization component's fetches alone, with room for two
\* call-chain fetches in flight at once.
NextFetch == Mounted \/ FetchStep(MaxFetchRequests)
SpecFetch == Init /\ [][NextFetch]_vars

\* The visualization component's fetches and the buttons of its detail panel.
NextPanel == Mounted \/ FetchStep(MaxPanelRequests) \/ PanelStep(MaxPanelRequests)
SpecPanel == Init /\ [][NextPanel]_vars

\* The visualization component's fetches and the click on the background.
NextClear == Mounted \/ FetchStep(MaxClearRequests) \/ ClearSelection
SpecClear == Init /\ [][NextClear]_vars

InitEmpty == Setup /\ storage = NoEntry

\* The upload dialog and the call-chain loads it starts, on absent storage.
NextUpload ==
  \/ Mounted
  \/ UploadStep(MaxUploadRequests)
  \/ \E i \in 1..MaxUploadRequests, resp \in AppCallChainResponses :
        AppLoadCallChainDone(i, resp)
SpecUpload == InitEmpty /\ [][NextUpload]_vars
\* The sidebar, started on an entry that does not parse.
InitCorrupt == Setup /\ storage = CorruptEntry
SpecCorrupt == InitCorrupt /\ [][NextApp]_vars

\* The promise of fetch i settles and the code after its await runs.  Each
\* fetch resolves or rejects, and the event loop then runs its continuation:
\* a continuation that can run is not postponed forever.
Resolves(i) ==
  \/ \E resp \in SearchResponses : SearchNodeDone(i, resp, MaxPanelRequests)
  \/ \E resp \in CallChainResponses : LoadCallChainDone(i, resp)
  \/ \E resp \in DetailsResponses : LoadDetailsDone(i, resp)
  \/ \E resp \in ImpactResponses : AnalyzeImpactDone(i, resp)

\* The component with answers that carry links of every kind: searches and
\* loads, both sliders and the view switch.
NextLinks ==
  \/ Mounted
  \/ \E kw \in Keywords : SearchNode(kw, MaxLinkRequests)
  \/ \E i \in 1..MaxLinkRequests, resp \in SearchResponses :
        SearchNodeDone(i, resp, MaxLinkRequests)
  \/ \E i \in 1..MaxLinkRequests, resp \in LinkResponses : LoadCallChainDone(i, resp)
  \/ \E d \in Depths : DepthChanged(d, MaxLinkRequests)
  \/ \E t \in Thresholds : ConfidenceChanged(t)
  \/ ToggleView
SpecLinks == Init /\ [][NextLinks]_vars

SpecLive ==
  /\ Init
  /\ [][NextPanel]_vars
  /\ \A i \in 1..MaxPanelRequests : WF_vars(Resolves(i))
SpecEmpty == InitEmpty /\ [][NextApp]_vars

\* ================================================================== claims
Last(seq) == seq[Len(seq)]

NoDuplicateNames(list) ==
  \A i, j \in 1..Len(list) : list[i].name = list[j].name => i = j

\* The distinct names of a sequence of loads, most recently loaded first.
RECURSIVE MostRecentFirst(_)
MostRecentFirst(names) ==
  IF names = << >> THEN << >>
  ELSE LET n == Last(names)
           before == MostRecentFirst(SubSeq(names, 1, Len(names) - 1))
       IN << n >> \o SelectSeq(before, LAMBDA m : m # n)

FirstTen(list) == SubSeq(list, 1, IF Len(list) < RecentCap THEN Len(list) ELSE RecentCap)

\* A call-chain load completed successfully in the step just taken.
SidebarLoadSucceeded(l) ==
  l.op = "appLoadCallChainDone" /\ l.resp.status = "ok" /\ l.resp.body = "graph"
GraphLoadSucceeded(l) ==
  l.op = "loadCallChainDone" /\ l.resp.status = "ok" /\ l.resp.body = "graph"

\* A gateway call of the component failed in the step just taken: the fetch
\* was rejected or answered with a non-success status.
GatewayFailed(l) ==
  /\ l.op \in {"searchNodeDone", "loadCallChainDone"}
  /\ l.resp.status \in {"rejected", "error"}

\* C1: starting from an empty recent list, after any sequence of successful
\* sidebar loads the persisted list is the distinct loaded names, most
\* recently loaded first, cut to 10 (SP_A, SP_B, SP_A leaves [SP_A, SP_B]).
C1_PersistedIsMostRecentFirst ==
  loaded # << >> =>
    storage = JSONstringify(
                LET names == FirstTen(MostRecentFirst(loaded))
                IN [k \in 1..Len(names) |-> Proc(names[k])])

\* C2: once addToRecentProcedures has run, from whatever list was read at
\* startup, the in-memory list and the persisted list have at most 10 entries.
C2_AtMostTen ==
  loaded # << >> =>
    /\ Len(recentProcedures) <= RecentCap
    /\ JSONparses(storage)
    /\ Len(JSONparse(storage)) <= RecentCap

\* C2 witness: a list of 11 entries was read at startup, its last item was
\* loaded, and the list written back has 10 entries.
C2_Witness ==
  /\ Len(loaded) = 1
  /\ Len(recentProcedures) = RecentCap
  /\ recentProcedures[1].name = StoredNames[RecentCap + 1]
  /\ recentProcedures[2].name = StoredNames[1]
  /\ storage = JSONstringify(recentProcedures)

\* C3: the recent list is deduplicated by name: a load never makes two
\* entries share a name, and after a load the first entry is the name of
\* the most recent successful load.
C3_Deduplicated ==
  /\ [](loaded # << >> =>
          /\ recentProcedures # << >>
          /\ recentProcedures[1].name = Last(loaded))
  /\ [][(loaded' # loaded /\ NoDuplicateNames(recentProcedures))
          => NoDuplicateNames(recentProcedures')]_vars

\* C3 witness: SP_B, second in the stored list, was loaded and now heads the
\* list before SP_A, once.
C3_Witness ==
  /\ loaded = << "SP_B" >>
  /\ Len(recentProcedures) >= 3
  /\ recentProcedures[1].name = "SP_B"
  /\ recentProcedures[2].name = "SP_A"
  /\ NoDuplicateNames(recentProcedures)

\* C4: whichever path starts a call-chain load (sidebar or in-graph), once
\* it succeeds the loaded name is at the head of the persisted list.
C4_EveryLoadHeadsPersistedList ==
  [][(SidebarLoadSucceeded(last') \/ GraphLoadSucceeded(last')) =>
       LET name == IF last'.op = "appLoadCallChainDone"
                   THEN appRequests[last'.req].name
                   ELSE requests[last'.req].name
       IN /\ JSONparses(storage')
          /\ JSONparse(storage') # << >>
          /\ JSONparse(storage')[1].name = name]_vars

\* C5: any gateway failure (fetch rejected, or non-success status) shows an
\* error, leaves graphData as it was, and the request is no longer pending.
C5_FailureLeavesStore ==
  [][GatewayFailed(last') =>
       /\ alert' # NoAlert
       /\ graphData' = graphData
       /\ requests'[last'.req].status # "pending"]_vars

\* C6: overlapping call-chain fetches are not ordered: a response that
\* arrives for a fetch issued before another call-chain fetch still replaces
\* the store, so the store holds the response that resolved last.
C6_LastResolvedWins ==
  ( /\ GraphLoadSucceeded(last)
    /\ \E j \in (last.req + 1)..Len(requests) : requests[j].kind = "callChain" )
  => /\ graphData.shape = "graph"
     /\ RawOf(graphData) = last.resp.graph

\* C6 witness: the store holds the answer to the older of two call-chain
\* fetches, which arrived after the answer to the newer one was applied.
C6_Witness ==
  /\ GraphLoadSucceeded(last)
  /\ \E j \in (last.req + 1)..Len(requests) :
       requests[j].kind = "callChain" /\ requests[j].status = "applied"
  /\ RawOf(graphData) = last.resp.graph

StoreContents(gd) == [shape |-> gd.shape, raw |-> RawOf(gd)]

C8_ReplacedWholesale ==
  GraphLoadSucceeded(last) =>
    /\ graphData.shape = "graph"
    /\ RawOf(graphData).nodes = last.resp.graph.nodes
    /\ RawOf(graphData).links = last.resp.graph.links

\* C8 witness: a second call-chain response has replaced the graph a first
\* one had installed.
C8_Witness ==
  /\ GraphLoadSucceeded(last)
  /\ \E j \in 1..(last.req - 1) :
       requests[j].kind = "callChain" /\ requests[j].status = "applied"
  /\ RawOf(graphData) = last.resp.graph

AllDefault(gd) ==
  /\ \A i \in 1..Len(gd.nodes) :
       ShownOpacity(gd.nodes[i]) = "1" /\ ~ShownHighlighted(gd.nodes[i])
  /\ \A i \in 1..Len(gd.links) :
       ShownOpacity(gd.links[i]) = "1" /\ ~ShownHighlighted(gd.links[i])

C10_SelectedNodeFullyOpaque ==
  ( /\ last.op \in {"handleNodeClick", "loadCallChainDone", "searchNodeDone"}
    /\ last.resp.status \in {"none", "ok"}
    /\ selectedNode.inStore )
  => LET n == NodeById(graphData.nodes, selectedNode.id)
     IN n.opacity = "1" /\ n.highlighted = "true"

\* selectNode ran in the step just taken: by a click on a node, by a search
\* whose first result is in the graph, or by a call-chain load whose response
\* has the requested node.  The selected node is then selectedNode.
SelectNodeRan ==
  \/ last.op = "handleNodeClick"
  \/ /\ last.op = "searchNodeDone"
     /\ FetchJsonResolves(last.resp)
     /\ last.resp.body = "procedures"
     /\ Len(last.resp.procs) > 0
     /\ graphData.shape = "graph"
     /\ FindByName(graphData.nodes, last.resp.procs[1]) # 0
  \/ /\ last.op = "loadCallChainDone"
     /\ FetchJsonResolves(last.resp)
     /\ last.resp.body = "graph"
     /\ selectedNode.inStore

LinkTouches(l, s) == l.source = s \/ l.target = s
LinkJoins(l, a, b) == (l.source = a /\ l.target = b) \/ (l.source = b /\ l.target = a)

\* C11: after selectNode(s) every node other than s that is at neither end
\* of a link touching s has opacity 0.2 and is not highlighted; highlighting
\* goes one hop only.
C11_UnrelatedNodesDimmed ==
  SelectNodeRan =>
    \A i \in 1..Len(graphData.nodes) :
      LET n == graphData.nodes[i]
      IN ( /\ n.id # selectedNode.id
           /\ ~\E k \in 1..Len(graphData.links) :
                 LinkJoins(graphData.links[k], selectedNode.id, n.id) )
         => n.opacity = "0.2" /\ n.highlighted = "false"

\* C11 witness: a node two links away from the selected one is dimmed.
C11_Witness ==
  /\ SelectNodeRan
  /\ \E i, j \in 1..Len(graphData.nodes) :
       LET n == graphData.nodes[i]
           m == graphData.nodes[j]
       IN /\ n.id # selectedNode.id /\ m.id # selectedNode.id /\ m.id # n.id
          /\ \E k \in 1..Len(graphData.links) :
               LinkJoins(graphData.links[k], selectedNode.id, m.id)
          /\ \E k \in 1..Len(graphData.links) : LinkJoins(graphData.links[k], m.id, n.id)
          /\ ~\E k \in 1..Len(graphData.links) :
                LinkJoins(graphData.links[k], selectedNode.id, n.id)
          /\ n.opacity = "0.2"

\* C12: after selectNode(s) every link whose source or target is s has
\* opacity 1 and is highlighted, and every other link has opacity 0.1 and is
\* not highlighted.
C12_LinksOfSelection ==
  SelectNodeRan =>
    \A k \in 1..Len(graphData.links) :
      LET l == graphData.links[k]
      IN IF LinkTouches(l, selectedNode.id)
         THEN l.opacity = "1" /\ l.highlighted = "true"
         ELSE l.opacity = "0.1" /\ l.highlighted = "false"

\* C12 witness: the selected node is the target of a highlighted link, and
\* another link is dimmed.
C12_Witness ==
  /\ SelectNodeRan
  /\ \E k \in 1..Len(graphData.links) :
       /\ graphData.links[k].target = selectedNode.id
       /\ graphData.links[k].source # selectedNode.id
       /\ graphData.links[k].opacity = "1"
  /\ \E k \in 1..Len(graphData.links) : graphData.links[k].opacity = "0.1"

\* C13: after selectNode(s), for every link touching s the node at its other
\* end, when it is not s, has opacity 0.8 and is highlighted, whether s is
\* the source or the target of the link.
C13_NeighboursHighlighted ==
  SelectNodeRan =>
    \A k \in 1..Len(graphData.links) :
      LET l == graphData.links[k]
      IN LinkTouches(l, selectedNode.id) =>
           \A e \in {l.source, l.target} \ {selectedNode.id} :
             LET n == NodeById(graphData.nodes, e)
             IN n.opacity = "0.8" /\ n.highlighted = "true"

\* C13 witness: the selected node is the source of one link and the target
\* of another, and both neighbours are at 0.8.
C13_Witness ==
  /\ SelectNodeRan
  /\ \E k, h \in 1..Len(graphData.links) :
       LET out == graphData.links[k]
           in == graphData.links[h]
       IN /\ out.source = selectedNode.id /\ out.target # selectedNode.id
          /\ in.target = selectedNode.id /\ in.source # selectedNode.id
          /\ NodeById(graphData.nodes, out.target).opacity = "0.8"
          /\ NodeById(graphData.nodes, in.source).opacity = "0.8"

\* C14: clearSelection is idempotent: from any state, a second call leaves
\* what the first call left, which is a store whose nodes and links all have
\* opacity 1 and highlighted false, with no node selected.
C14_ClearSelectionIdempotent ==
  LET once == Cleared(selectedNode, graphData)
      twice == Cleared(once.selectedNode, once.graphData)
  IN /\ twice = once
     /\ once.selectedNode = NoNode
     /\ \A i \in 1..Len(once.graphData.nodes) :
          once.graphData.nodes[i].opacity = "1" /\ once.graphData.nodes[i].highlighted = "false"
     /\ \A k \in 1..Len(once.graphData.links) :
          once.graphData.links[k].opacity = "1" /\ once.graphData.links[k].highlighted = "false"
     /\ last.op = "clearSelection" =>
          selectedNode = once.selectedNode /\ graphData = once.graphData

\* C14 witness: clearSelection has run on a graph with links, and a second
\* call would change nothing.
C14_Witness ==
  /\ last.op = "clearSelection"
  /\ Len(graphData.links) = 3
  /\ \A k \in 1..Len(graphData.links) : graphData.links[k].opacity = "1"
  /\ \A i \in 1..Len(graphData.nodes) : graphData.nodes[i].highlighted = "false"
  /\ selectedNode = NoNode

\* C15: immediately after the confidence slider handler ran with threshold
\* t, a link of the store has opacity 1 if and only if its confidence is at
\* least t, and opacity 0.3 otherwise.
C15_ThresholdSetsLinkOpacity ==
  (last.op = "confidenceChanged" /\ graphData.shape = "graph") =>
    \A k \in 1..Len(graphData.links) :
      LET l == graphData.links[k]
      IN /\ l.opacity = "1" <=> l.confidence >= confidenceThreshold
         /\ l.opacity # "1" => l.opacity = "0.3"

\* C15 witness: the handler ran with a threshold that one link meets exactly
\* and another link misses.
C15_Witness ==
  /\ last.op = "confidenceChanged"
  /\ \E k \in 1..Len(graphData.links) :
       /\ graphData.links[k].confidence = confidenceThreshold
       /\ graphData.links[k].opacity = "1"
  /\ \E k \in 1..Len(graphData.links) : graphData.links[k].opacity = "0.3"

HighlightValue(l, s) == IF LinkTouches(l, s) THEN "1" ELSE "0.1"
ThresholdValue(l, t) == IF l.confidence >= t THEN "1" ELSE "0.3"

\* C16: of the two writers of link opacity the later call wins: when the
\* confidence handler runs right after selectNode every link has its
\* threshold value whatever its highlight, and when selectNode runs right
\* after the confidence handler every link has its highlight value whatever
\* the threshold.
C16_LaterWriterWins ==
  /\ [][ (SelectNodeRan /\ last'.op = "confidenceChanged") =>
           \A k \in 1..Len(graphData'.links) :
             graphData'.links[k].opacity =
               ThresholdValue(graphData'.links[k], confidenceThreshold') ]_vars
  /\ [][ (last.op = "confidenceChanged" /\ graphData.shape = "graph" /\ SelectNodeRan') =>
           \A k \in 1..Len(graphData'.links) :
             graphData'.links[k].opacity =
               HighlightValue(graphData'.links[k], selectedNode'.id) ]_vars

\* C16 witness: after the confidence handler a highlighted link of the
\* selected node is at 0.3 and a link away from it is at 1.
C16_Witness ==
  /\ last.op = "confidenceChanged"
  /\ selectedNode.inStore
  /\ \E k \in 1..Len(graphData.links) :
       /\ graphData.links[k].highlighted = "true"
       /\ graphData.links[k].opacity = "0.3"
  /\ \E k \in 1..Len(graphData.links) :
       /\ graphData.links[k].highlighted = "false"
       /\ graphData.links[k].opacity = "1"

\* C17: toggleView followed by toggleView, from any state of the mounted
\* component, leaves the nodes and links of the store (without transient
\* fields) as they were and returns the view mode to the one it started in.
C17_DoubleToggleRestores ==
  phase = "mounted" =>
    LET once == ToggledView(is3D, graph, graphData)
        twice == ToggledView(once.is3D, once.graph, once.graphData)
    IN /\ StoreContents(twice.graphData) = StoreContents(graphData)
       /\ twice.is3D = is3D
       /\ twice.graph.variant = graph.variant
       /\ once.is3D # is3D
       /\ last.op = "toggleView" =>
            StoreContents(graphData) = StoreContents(once.graphData)

\* C17 witness: the view was switched away from 3D and back while a loaded
\* graph had a selected node.
C17_Witness ==
  /\ last.op = "toggleView"
  /\ is3D
  /\ graph.variant = "3D"
  /\ Len(graphData.nodes) = 3
  /\ selectedNode.inStore

\* C18: toggleView destroys the live adapter before it constructs the other
\* variant and hands the new adapter the graph the store held: once mounted,
\* exactly one adapter is live, its variant is the one is3D names and it
\* draws the store, which a toggle leaves as it was.
C18_OneAdapterOnSameStore ==
  /\ [](phase = "mounted" =>
          /\ graph.live = 1
          /\ graph.variant = (IF is3D THEN "3D" ELSE "2D")
          /\ graph.data = "store")
  /\ [][last'.op = "toggleView" =>
          /\ graphData' = graphData
          /\ graph'.variant # graph.variant]_vars

\* C18 witness: a toggle has put a 2D adapter, the only live one, on a
\* loaded graph.
C18_Witness ==
  /\ last.op = "toggleView"
  /\ ~is3D
  /\ graph.variant = "2D"
  /\ graph.live = 1
  /\ graph.data = "store"
  /\ Len(graphData.nodes) = 3

\* C19: toggleView re-applies the last known camera intent: when the camera
\* was last centred on a node or last reset, the adapter the switch
\* constructs has that camera target.
C19_CameraIntentKept ==
  [][ (last'.op = "toggleView" /\ graph.camera.at \in {"node", "origin"}) =>
        graph'.camera = graph.camera ]_vars

\* C20: a search answered with an empty result set shows the not-found
\* message and ends there: the store, the selection, the highlight state and
\* the adapter are as before, and no call-chain fetch is issued.
C20_EmptySearchChangesNothing ==
  [][ ( /\ last'.op = "searchNodeDone"
        /\ last'.resp.status = "ok"
        /\ last'.resp.body = "procedures"
        /\ last'.resp.procs = << >> )
      => /\ alert' = "notFound"
         /\ graphData' = graphData
         /\ selectedNode' = selectedNode
         /\ graph' = graph
         /\ Len(requests') = Len(requests)
         /\ Pending(requests', "callChain") = Pending(requests, "callChain")
         /\ requests'[last'.req].status = "applied" ]_vars

\* C20 witness: nothing was found while a node was selected and the rest of
\* the graph dimmed, and they still are.
C20_Witness ==
  /\ last.op = "searchNodeDone"
  /\ last.resp.status = "ok"
  /\ last.resp.body = "procedures"
  /\ last.resp.procs = << >>
  /\ alert = "notFound"
  /\ selectedNode.inStore
  /\ \E i \in 1..Len(graphData.nodes) : graphData.nodes[i].opacity = "0.2"

\* A search was answered with at least one result in the step just taken.
SearchFound(l) ==
  /\ l.op = "searchNodeDone"
  /\ l.resp.status = "ok"
  /\ l.resp.body = "procedures"
  /\ Len(l.resp.procs) > 0

\* C21: on a search with at least one result, a node of the store that has
\* the first result's name is selected and the camera centred on it, with no
\* call-chain fetch and no replacement; when the store has no such node a
\* call-chain fetch for that name is issued.
C21_SearchSelectsOrFetches ==
  [][ SearchFound(last') =>
        LET name == last'.resp.procs[1]
        IN IF \E i \in 1..Len(graphData.nodes) : graphData.nodes[i].name = name
           THEN /\ selectedNode'.name = name
                /\ selectedNode'.inStore
                /\ graph'.camera = Camera("node", selectedNode'.id)
                /\ Len(requests') = Len(requests)
                /\ RawOf(graphData') = RawOf(graphData)
                /\ ~last'.loadData
           ELSE /\ Len(requests') = Len(requests) + 1
                /\ Last(requests') =
                     Request("callChain", name, depth, confidenceThreshold, "pending") ]_vars

\* C22: while a node is selected, a change of the depth slider and a change
\* of the confidence slider each issue a call-chain fetch for the selected
\* node's name that carries the new slider value; with no node selected
\* neither issues a fetch.
C22_SlidersRefetch ==
  [][ last'.op \in {"depthChanged", "confidenceChanged"} =>
        IF selectedNode # NoNode
        THEN requests' = Append(requests,
                                Request("callChain", selectedNode.name,
                                        depth', confidenceThreshold', "pending"))
        ELSE requests' = requests ]_vars

\* C23: when a call-chain fetch started by a slider succeeds, the store is
\* replaced and the node is selected again if the new graph still has it:
\* the node of the new graph with the requested name becomes the selected
\* node and is highlighted.
C23_ReselectedAfterReload ==
  [][ GraphLoadSucceeded(last') =>
        LET node == FindByName(last'.resp.graph.nodes, requests[last'.req].name)
        IN /\ RawOf(graphData') = last'.resp.graph
           /\ node # 0 =>
                /\ selectedNode' = NodeRef(NodeById(graphData'.nodes, node), TRUE)
                /\ selectedNode'.name = requests[last'.req].name
                /\ NodeById(graphData'.nodes, node).highlighted = "true" ]_vars

\* C23 witness: after the one search and its load, a fetch the depth slider
\* started has replaced the graph with another one in which the node that
\* was selected is present, and it is selected there.
C23_Witness ==
  /\ GraphLoadSucceeded(last)
  /\ last.req = 3
  /\ requests[1].kind = "search"
  /\ requests[2].kind = "callChain" /\ requests[2].status = "applied"
  /\ last.resp.graph = GraphB
  /\ selectedNode = NodeRef(RawNode(2, "SP_B"), TRUE)
  /\ NodeById(graphData.nodes, 2).highlighted = "true"

\* C24: the Detail button and the Impact button never change the store:
\* whether their gateway call succeeds or fails, nodes, links, transient
\* fields and the selected node are after each of their steps what they
\* were before it.
C24_PanelButtonsLeaveStore ==
  [][ last'.op \in {"loadDetails", "loadDetailsDone", "analyzeImpact", "analyzeImpactDone"} =>
        /\ graphData' = graphData
        /\ selectedNode' = selectedNode
        /\ graph' = graph
        /\ is3D' = is3D ]_vars

\* C24 witness: the details of the selected node were shown while the rest
\* of the graph was dimmed, and it still is.
C24_Witness ==
  /\ last.op = "loadDetailsDone"
  /\ alert = "details"
  /\ selectedNode.inStore
  /\ NodeById(graphData.nodes, selectedNode.id).highlighted = "true"
  /\ \E i \in 1..Len(graphData.nodes) : graphData.nodes[i].opacity = "0.2"

\* C25: an exportImage that fails, in particular for want of a canvas in
\* the container, shows the user a message, and changes nothing of the
\* store, the selection or the view mode.
C25_FailedExportIsReported ==
  [][ (last'.op = "exportImage" /\ last'.resp.body \in {"noCanvas", "throws"}) =>
        /\ alert' # NoAlert
        /\ graphData' = graphData
        /\ selectedNode' = selectedNode
        /\ is3D' = is3D ]_vars

\* The recent list that successful loads of these names, in this order,
\* leave when they start from an empty list.
RECURSIVE RecentAfter(_)
RecentAfter(names) ==
  IF names = << >> THEN << >>
  ELSE AddToRecentProcedures(RecentAfter(SubSeq(names, 1, Len(names) - 1)),
                             Proc(Last(names)))

\* C26: a stored recent list that does not parse is recovered at startup by
\* an empty in-memory list and startup completes; every later successful
\* load updates the list and the stored entry as it does from an empty list.
C26_ParseFailureRecovered ==
  /\ phase = "mounted" => recentProcedures = RecentAfter(loaded)
  /\ loaded = << >> => storage = CorruptEntry
  /\ loaded # << >> =>
       /\ recentProcedures[1].name = Last(loaded)
       /\ storage = JSONstringify(recentProcedures)

\* C26 witness: after the failed parse two loads have succeeded and the
\* stored entry is the list again.
C26_Witness ==
  /\ phase = "mounted"
  /\ Len(loaded) = 2
  /\ JSONparses(storage)
  /\ JSONparse(storage) = recentProcedures
  /\ recentProcedures[1].name = loaded[2]

\* C27: every fetch the component issues is settled in the end, given that
\* each fetch resolves or rejects: it does not stay pending for ever, and it
\* ends applied or, when it failed, with a message shown by the step that
\* ends it.
C27_EveryRequestSettles ==
  /\ \A i \in 1..MaxPanelRequests :
        (i <= Len(requests) /\ requests[i].status = "pending")
          ~> (i <= Len(requests) /\ requests[i].status \in {"applied", "failed"})
  /\ [][\A i \in 1..Len(requests) :
          (requests[i].status = "pending" /\ requests'[i].status # "pending")
            => \/ requests'[i].status = "applied"
               \/ requests'[i].status = "failed" /\ alert' # NoAlert]_vars

C27_Witness ==
  /\ Len(requests) = 3
  /\ \A i \in 1..3 : requests[i].status # "pending"
  /\ \E i \in 1..3 : requests[i].status = "failed"
  /\ \E i \in 1..3 : requests[i].status = "applied"
  /\ last.req # 0
  /\ alert # NoAlert

\* The colour the adapter of the current variant draws a link of the store in.
ShownLinkColor(link) == LinkColor(is3D, link, confidenceThreshold)
StoreLinks == IF graphData.shape = "graph" THEN 1..Len(graphData.links) ELSE {}
ShownColors == { ShownLinkColor(graphData.links[k]) : k \in StoreLinks }

\* C28: in the 3D and in the 2D variant alike, a link of the store whose
\* confidence is below the threshold is red whatever its type, and any other
\* link is purple for CALLS, green for REFERENCES, orange for DYN_REFERENCES
\* and gray for every other type.
C28_OneColourRule ==
  \A k \in StoreLinks, threeD \in BOOLEAN :
    LET link == graphData.links[k]
        colour == LinkColor(threeD, link, confidenceThreshold)
        below == link.confidence \in 0..(confidenceThreshold - 1)
    IN /\ below => colour = "#e74c3c"
       /\ ~below /\ link.type = "CALLS" => colour = "#9b59b6"
       /\ ~below /\ link.type = "REFERENCES" => colour = "#2ecc71"
       /\ ~below /\ link.type = "DYN_REFERENCES" => colour = "#f39c12"
       /\ ~below /\ link.type \notin {"CALLS", "REFERENCES", "DYN_REFERENCES"}
            => colour = "#95a5a6"
       /\ colour = ShownLinkColor(link)

C28_Witness ==
  /\ ~is3D
  /\ last.op = "confidenceChanged"
  /\ ShownColors = {"#e74c3c", "#9b59b6", "#2ecc71", "#f39c12", "#95a5a6"}
  /\ \E k \in StoreLinks :
        graphData.links[k].type = "CALLS" /\ ShownLinkColor(graphData.links[k]) = "#e74c3c"

\* C29: a link of the store that carries a confidence c, c = 0 included, is
\* drawn 3 * c wide, and only a link without confidence is drawn at the
\* default width 3 * 0.5 (widths and confidences in tenths).
C29_WidthProportional ==
  \A k \in StoreLinks :
    LET link == graphData.links[k]
    IN IF link.confidence = NoConfidence
       THEN LinkWidth(is3D, link) = 15
       ELSE LinkWidth(is3D, link) = 3 * link.confidence

\* The widths follow the rule for every link whose confidence is not 0.
WidthProportionalAboveZero ==
  \A k \in StoreLinks :
    LET link == graphData.links[k]
    IN link.confidence # 0 =>
         IF link.confidence = NoConfidence
         THEN LinkWidth(is3D, link) = 15
         ELSE LinkWidth(is3D, link) = 3 * link.confidence

\* C30: a sidebar load the gateway answers with a graph puts that graph in
\* the component's store and shows no message.
C30_SidebarLoadInstalls ==
  [][SidebarLoadSucceeded(last') =>
       /\ alert' = NoAlert
       /\ graphData'.shape = "graph"
       /\ RawOf(graphData') = last'.resp.graph]_vars

\* C31: the selected node is none or a node object of the graph the store
\* holds now.
C31_SelectionIsInStore ==
  selectedNode # NoNode =>
    /\ selectedNode.inStore
    /\ graphData.shape = "graph"
    /\ \E k \in 1..Len(graphData.nodes) :
         /\ graphData.nodes[k].id = selectedNode.id
         /\ graphData.nodes[k].name = selectedNode.name

\* C32: whenever no node is selected, no node and no link of the store has
\* highlighted true.
C32_NoSelectionNoHighlight ==
  selectedNode = NoNode =>
    /\ \A i \in 1..Len(graphData.nodes) : ~ShownHighlighted(graphData.nodes[i])
    /\ \A k \in 1..Len(graphData.links) : ~ShownHighlighted(graphData.links[k])

\* The background click does clear the highlight.
BackgroundClickClearsHighlight ==
  last.op = "clearSelection" =>
    /\ selectedNode = NoNode
    /\ \A i \in 1..Len(graphData.nodes) : ~ShownHighlighted(graphData.nodes[i])
    /\ \A k \in 1..Len(graphData.links) : ~ShownHighlighted(graphData.links[k])

\* C33: a cleared selection stays cleared when a call-chain fetch issued
\* before the clear completes: if the step after the background click is the
\* completion of a fetch for a node of the store (the refetch a slider issued
\* for the node then selected), no node is selected after it.
C33_ClearedStaysCleared ==
  [][(/\ last.op = "clearSelection"
      /\ last'.op = "loadCallChainDone"
      /\ graphData.shape = "graph"
      /\ FindByName(graphData.nodes, requests[last'.req].name) # 0)
       => selectedNode' = NoNode]_vars

\* C34: right after the confidence handler ran, a link of the store is drawn
\* red exactly when its opacity is 0.3, a link without confidence included.
C34_ColourAgreesWithDimming ==
  last.op = "confidenceChanged" =>
    \A k \in StoreLinks :
      ShownLinkColor(graphData.links[k]) = "#e74c3c"
        <=> ShownOpacity(graphData.links[k]) = "0.3"

\* Colour and dimming agree on every link that carries a confidence.
ColourAgreesWhereConfidence ==
  last.op = "confidenceChanged" =>
    \A k \in StoreLinks :
      graphData.links[k].confidence # NoConfidence =>
        (ShownLinkColor(graphData.links[k]) = "#e74c3c"
           <=> ShownOpacity(graphData.links[k]) = "0.3")

RecentFollowsGatewayAnswer ==
  [][last'.op = "appLoadCallChainDone" =>
       IF AxiosResolves(last'.resp)
       THEN storage' = JSONstringify(recentProcedures')
       ELSE recentProcedures' = recentProcedures /\ storage' = storage]_vars

\* C36: the confidence handler changes nothing but the opacity of links:
\* the nodes with their opacity and highlighted flag, the links apart from
\* their opacity, the selected node, the adapter, the view mode, the depth
\* and the requests are as before it.
C36_ConfidenceChangesLinkOpacityOnly ==
  [][last'.op = "confidenceChanged" =>
       /\ selectedNode' = selectedNode
       /\ graphData'.shape = graphData.shape
       /\ graphData'.nodes = graphData.nodes
       /\ Len(graphData'.links) = Len(graphData.links)
       /\ \A k \in 1..Len(graphData.links) :
            [graphData'.links[k] EXCEPT !.opacity = graphData.links[k].opacity]
              = graphData.links[k]
       /\ << graph, is3D, depth, requests >>' = << graph, is3D, depth, requests >>]_vars

C36_Witness ==
  /\ last.op = "confidenceChanged"
  /\ selectedNode # NoNode
  /\ \E i \in 1..Len(graphData.nodes) :
       graphData.nodes[i].opacity = "0.2" /\ graphData.nodes[i].highlighted = "false"
  /\ \E k \in 1..Len(graphData.links) :
       graphData.links[k].highlighted = "true" /\ graphData.links[k].opacity = "0.3"

\* C37: toggleView changes the variant and nothing else of the view state:
\* the selected node and the opacity and highlighted flag of every node and
\* link are after the switch what they were before it.
C37_ToggleViewKeepsViewState ==
  [][last'.op = "toggleView" =>
       /\ is3D' = ~is3D
       /\ selectedNode' = selectedNode
       /\ Len(graphData'.nodes) = Len(graphData.nodes)
       /\ Len(graphData'.links) = Len(graphData.links)
       /\ \A i \in 1..Len(graphData.nodes) :
            /\ graphData'.nodes[i].opacity = graphData.nodes[i].opacity
            /\ graphData'.nodes[i].highlighted = graphData.nodes[i].highlighted
       /\ \A k \in 1..Len(graphData.links) :
            /\ graphData'.links[k].opacity = graphData.links[k].opacity
            /\ graphData'.links[k].highlighted = graphData.links[k].highlighted]_vars

C37_Witness ==
  /\ last.op = "toggleView"
  /\ ~is3D
  /\ selectedNode # NoNode /\ selectedNode.inStore
  /\ \E i \in 1..Len(graphData.nodes) :
       graphData.nodes[i].opacity = "0.8" /\ graphData.nodes[i].highlighted = "true"
  /\ \E k \in 1..Len(graphData.links) :
       graphData.links[k].opacity = "0.1" /\ graphData.links[k].highlighted = "false"

\* C38: the step that ends an upload the gateway rejects or answers with a
\* non-success status (or with a body that is no JSON) shows a message,
\* leaves the dialog and the chosen files as they are and starts no
\* call-chain load; the step that ends an upload that succeeds closes the
\* dialog, empties the chosen files and starts a call-chain load for the
\* first procedure the response lists, and none when it lists none.
C38_UploadOutcome ==
  [][last'.op = "uploadFilesDone" =>
       IF UploadResolves(last'.resp)
       THEN /\ ~showUpload'
            /\ selectedFiles' = << >>
            /\ IF Len(last'.resp.procs) > 0
               THEN /\ Len(appRequests') = Len(appRequests) + 1
                    /\ Last(appRequests') =
                         Request("callChain", last'.resp.procs[1], DefaultDepth,
                                 DefaultConfidence, "pending")
               ELSE Len(appRequests') = Len(appRequests)
       ELSE /\ alert' # NoAlert
            /\ alert' # "uploaded"
            /\ showUpload' = showUpload
            /\ selectedFiles' = selectedFiles
            /\ Len(appRequests') = Len(appRequests)]_vars

C38_Witness ==
  /\ last.op = "uploadFilesDone"
  /\ UploadResolves(last.resp)
  /\ ~showUpload
  /\ selectedFiles = << >>
  /\ Len(appRequests) = 3
  /\ appRequests[1].kind = "upload" /\ appRequests[1].status = "failed"
  /\ appRequests[2].kind = "upload" /\ appRequests[2].status = "applied"
  /\ appRequests[3] = Request("callChain", "SP_A", DefaultDepth, DefaultConfidence, "pending")

====
